---- MODULE Spec2Model ----
(***************************************************************************)
(* Model of eventlib (src/eventlib/eventlib.c): one event processor, its   *)
(* linked queue of owned event nodes, its three-state lifecycle and the    *)
(* four callback hooks.  The library is single-threaded, but every hook    *)
(* runs in-line and may call back into the processor, so the model keeps   *)
(* the C call stack: each action runs one function from a callback point   *)
(* (log_message or a hook invocation) to the next one.  Between two        *)
(* callback points nobody can observe the processor, so these segments     *)
(* are atomic.                                                             *)
(***************************************************************************)
EXTENDS Integers, Sequences, FiniteSets

VARIABLES
  config,            \* proc->config, fixed at create
  hooksCallBack,     \* the host's hooks call back into the processor
  alive,             \* the processor exists (created, not yet destroyed)
  state,             \* proc->state
  queue_head,        \* proc->queue_head (address, NULL = 0)
  queue_tail,        \* proc->queue_tail
  queue_size,        \* proc->queue_size
  events_processed,  \* proc->events_processed
  nodes,             \* heap: address -> event_node_t, allocated nodes only
  blocks,            \* heap: address -> bytes (caller's buffers, copies)
  stack,             \* the C call stack, innermost frame last
  hookCalls,         \* API calls made by hooks so far
  nextId,            \* allocations of nodes so far (gives fresh addresses)
  enq,               \* history: nodes linked into the queue, in order
  deq,               \* history: nodes unlinked by process, in order
  overtaken,         \* history: process unlinked a node while an earlier one
                     \*          was still waiting for its on_event
  disp,              \* history: nodes handed to on_event, in order
  dropped,           \* history: nodes discarded by the filter
  clearedIds,        \* history: nodes released by clear_queue
  pushed,            \* live node -> what the caller's buffers held at its push
  memErr             \* history: a free of an address that is not allocated

vars == <<config, hooksCallBack, alive, state, queue_head, queue_tail,
          queue_size,
          events_processed, nodes, blocks, stack, hookCalls, nextId,
          enq, deq, overtaken, disp, dropped, clearedIds, pushed, memErr>>

cfgVars == <<config, hooksCallBack>>
procVars == <<state, queue_head, queue_tail, queue_size, events_processed>>
heapVars == <<nodes, blocks, nextId, pushed, memErr>>
histVars == <<enq, disp, dropped, clearedIds>>
deqVars == <<deq, overtaken>>

-----------------------------------------------------------------------------
(* Bounds of the model *)

\* events pushed in one behaviour
MaxPushes == 2
\* events pushed in one behaviour when they carry source texts and payloads
MaxDataPushes == 1
\* API calls that hooks make in one behaviour
MaxHookCalls == 1

\* processAll's count is a size_t; the model stops counting here, a value
\* only a loop that never ends can reach
CountCap == MaxPushes + 1

-----------------------------------------------------------------------------
(* Addresses and memory *)

NULL == 0
CallerSrc == 1
CallerBuf == 2
NodeAddr(k) == 3 * k
SrcAddr(k) == 3 * k + 1
DatAddr(k) == 3 * k + 2

\* what the caller may hold in its source text (without the NUL) and payload
SrcTexts == {<<97>>, <<98>>}
BufBytes == {<<1>>, <<2>>}
CapChoices == {0, 1, 2}

\* the arguments of push that the model tries, with the fate of its three
\* allocations: a full event, a bare one, a length without a payload, a
\* payload without a length, and each allocation failing in turn
PushIn(type, source, data, data_len, okNode, okSrc, okDat) ==
  [type |-> type, source |-> source, data |-> data, data_len |-> data_len,
   okNode |-> okNode, okSrc |-> okSrc, okDat |-> okDat]

PlainInput == PushIn("CONNECT", NULL, NULL, 0, TRUE, TRUE, TRUE)

PushInputs ==
  { PushIn("DATA", CallerSrc, CallerBuf, 1, TRUE, TRUE, TRUE),
    PlainInput,
    PushIn("ERROR", NULL, NULL, 1, TRUE, TRUE, TRUE),
    PushIn("DISCONNECT", NULL, CallerBuf, 0, TRUE, TRUE, TRUE),
    PushIn("DATA", CallerSrc, CallerBuf, 1, FALSE, TRUE, TRUE),
    PushIn("DATA", CallerSrc, CallerBuf, 1, TRUE, FALSE, TRUE),
    PushIn("DATA", CallerSrc, CallerBuf, 1, TRUE, TRUE, FALSE) }

Configs ==
  [max_queue_size : CapChoices, enable_logging : BOOLEAN, on_event : BOOLEAN,
   on_log : BOOLEAN, on_filter : BOOLEAN, on_state_change : BOOLEAN]

\* strdup(source): NULL when the allocation fails
Strdup(ok, k) == IF ok THEN SrcAddr(k) ELSE NULL

\* malloc(data_len)
Malloc(ok, k) == IF ok THEN DatAddr(k) ELSE NULL

\* memcpy(dst, src, n): the first n bytes at src
Memcpy(mem, src, n) == SubSeq(mem[src], 1, n)

\* free(p): free(NULL) does nothing
Free(mem, p) == [a \in DOMAIN mem \ {p} |-> mem[a]]

BadFree(mem, p) == p # NULL /\ p \notin DOMAIN mem

\* writing v at address p (nothing to write through NULL)
Store(mem, p, v) ==
  IF p = NULL THEN mem
  ELSE [a \in DOMAIN mem \cup {p} |-> IF a = p THEN v ELSE mem[a]]

-----------------------------------------------------------------------------
(* processor_state_t and state_to_string *)

STATE_IDLE == 0
STATE_RUNNING == 1
STATE_STOPPED == 2

state_to_string(s) ==
  CASE s = STATE_IDLE -> "IDLE"
    [] s = STATE_RUNNING -> "RUNNING"
    [] s = STATE_STOPPED -> "STOPPED"
    [] OTHER -> "UNKNOWN"

-----------------------------------------------------------------------------
(* The call stack *)

\* a frame: fn and pc say where the function stands; the other fields are
\* its locals (node, count, old, new), the value it is about to return (rv)
\* and, for a hook's frame, the arguments the library passed to the hook;
\* ep0 remembers events_processed as it was when processAll was entered
F0 == [fn |-> "", pc |-> "", node |-> NULL, cnt |-> 0, tgt |-> 0,
       old |-> "", new |-> "", rv |-> FALSE, why |-> "", cf |-> FALSE,
       fired |-> 0, lvl |-> "", msg |-> "", ep0 |-> 0]

Frame(fn, pc, why) == [F0 EXCEPT !.fn = fn, !.pc = pc, !.why = why]

Top == stack[Len(stack)]
Below == SubSeq(stack, 1, Len(stack) - 1)
AtTop(pc) == stack # <<>> /\ Top.pc = pc
InHook(fn) == stack # <<>> /\ Top.pc = "hook" /\ Top.fn = fn

\* the caller, or a hook that is running, may call the API
CanCall ==
  /\ alive
  /\ IF stack = <<>> THEN TRUE
     ELSE hooksCallBack /\ Top.pc = "hook" /\ hookCalls < MaxHookCalls

\* a call made by a hook is counted
Counted == hookCalls' = IF stack = <<>> THEN hookCalls ELSE hookCalls + 1

\* log_message: calls on_log when logging is enabled and the hook is set
LogEnabled == config.enable_logging /\ config.on_log

log_message(s, level, msg, n) ==
  IF LogEnabled
  THEN Append(s, [Frame("on_log", "hook", "") EXCEPT
                    !.lvl = level, !.msg = msg, !.cnt = n])
  ELSE s

-----------------------------------------------------------------------------
(* The queue: a singly linked list of nodes, head to tail *)

\* the nodes reached from p by next, in order
RECURSIVE Chain(_, _, _)
Chain(ns, p, fuel) ==
  IF p = NULL \/ p \notin DOMAIN ns \/ fuel = 0 THEN <<>>
  ELSE <<p>> \o Chain(ns, ns[p].next, fuel - 1)

Queue == Chain(nodes, queue_head, Cardinality(DOMAIN nodes))

Range(s) == {s[i] : i \in 1..Len(s)}

\* mutant: the capacity check lets one more event in
QueueFullOffByOne ==
  config.max_queue_size > 0 /\ queue_size > config.max_queue_size

\* the capacity check of push
QueueFull ==
  config.max_queue_size > 0 /\ queue_size >= config.max_queue_size

\* mutant: the node is linked in front of the head
LinkHead(ns, head, tail, n) ==
  [nodes |-> [ns EXCEPT ![n].next = head],
   head |-> n,
   tail |-> IF tail = NULL THEN n ELSE tail]

\* push: "Add to queue"
LinkTail(ns, head, tail, n) ==
  IF tail # NULL
  THEN [nodes |-> [ns EXCEPT ![tail].next = n], head |-> head, tail |-> n]
  ELSE [nodes |-> ns, head |-> n, tail |-> n]

\* mutant: the head is handed out but stays linked
UnlinkKeepsHead(ns, head, tail) ==
  [node |-> head, head |-> head, tail |-> tail]

\* process: "Remove from queue"
Unlink(ns, head, tail) ==
  [node |-> head,
   head |-> ns[head].next,
   tail |-> IF ns[head].next = NULL THEN NULL ELSE tail]

\* free(node->source_copy); free(node->data_copy); free(node)
FreeNodeBlocks(mem, nd) == Free(Free(mem, nd.source_copy), nd.data_copy)

BadFreeNode(ns, mem, n) ==
  \/ BadFree(ns, n)
  \/ n \in DOMAIN ns /\ ( \/ BadFree(mem, ns[n].source_copy)
                          \/ BadFree(mem, ns[n].data_copy) )

-----------------------------------------------------------------------------
(* event_processor_create *)

\* mutant: a new processor is already running
CreatedRunning == STATE_RUNNING

\* "Initialize state": proc->state of a new processor
Created == STATE_IDLE

Init ==
  /\ config \in Configs
  /\ hooksCallBack \in BOOLEAN
  /\ hookCalls = 0
  /\ alive = TRUE
  /\ state = Created
  /\ queue_head = NULL
  /\ queue_tail = NULL
  /\ queue_size = 0
  /\ events_processed = 0
  /\ nodes = [a \in {} |-> 0]
  /\ blocks = [a \in {CallerSrc, CallerBuf} |->
                 IF a = CallerSrc THEN <<97>> ELSE <<1>>]
  /\ stack = <<>>
  /\ nextId = 0
  /\ enq = <<>>
  /\ deq = <<>>
  /\ overtaken = FALSE
  /\ disp = <<>>
  /\ dropped = {}
  /\ clearedIds = {}
  /\ pushed = [a \in {} |-> 0]
  /\ memErr = FALSE

-----------------------------------------------------------------------------
(* event_processor_push *)

\* mutant: the filter's verdict is ignored
AdmittedAlways(r) == TRUE

\* the filter's verdict: false drops the event
Admitted(r) == r

\* "Add to queue": link the node at the tail, count it, log, return true
Enqueue(b, f, ns) ==
  LET r == LinkTail(ns, queue_head, queue_tail, f.node) IN
  /\ nodes' = r.nodes
  /\ queue_head' = r.head
  /\ queue_tail' = r.tail
  /\ queue_size' = queue_size + 1
  /\ enq' = Append(enq, f.node)
  /\ stack' = log_message(
                Append(b, [f EXCEPT !.pc = "ret", !.rv = TRUE,
                                    !.why = "queued"]),
                "DEBUG", "Event queued", queue_size + 1)

\* the call, up to the first callback: the capacity check, the node and its
\* copies (each allocation may fail), then the filter or the enqueue
Push(type, source, data, data_len, okNode, okSrc, okDat) ==
  /\ CanCall
  /\ Counted
  /\ nextId < (IF hooksCallBack THEN MaxPushes ELSE MaxDataPushes)
  /\ UNCHANGED <<cfgVars, deqVars, alive, state, events_processed, disp,
                 dropped, clearedIds, memErr>>
  /\ IF QueueFull
     THEN /\ stack' = log_message(
                        Append(stack, [Frame("push", "ret", "full") EXCEPT
                                         !.rv = FALSE]),
                        "WARN", "Queue full", queue_size)
          /\ UNCHANGED <<queue_head, queue_tail, queue_size, nodes, blocks,
                         nextId, pushed, enq>>
     ELSE IF ~okNode
     THEN /\ stack' = Append(stack, [Frame("push", "ret", "nomem") EXCEPT
                                       !.rv = FALSE])
          /\ UNCHANGED <<queue_head, queue_tail, queue_size, nodes, blocks,
                         nextId, pushed, enq>>
     ELSE
       LET k == nextId + 1
           n == NodeAddr(k)
           sc == IF source # NULL THEN Strdup(okSrc, k) ELSE NULL
           dc == IF data # NULL /\ data_len > 0 THEN Malloc(okDat, k) ELSE NULL
           nd == [type |-> type, data_len |-> data_len,
                  source |-> sc, data |-> dc,
                  source_copy |-> sc, data_copy |-> dc, next |-> NULL]
           ns == Store(nodes, n, nd)
           f == [Frame("push", "push_filter", "") EXCEPT
                   !.node = n,
                   !.cf = \/ source # NULL /\ sc = NULL
                          \/ data # NULL /\ data_len > 0 /\ dc = NULL]
       IN
       /\ nextId' = k
       /\ blocks' = Store(Store(blocks, sc, IF source = NULL THEN <<>>
                                             ELSE blocks[source]),
                          dc, IF data = NULL THEN <<>>
                              ELSE Memcpy(blocks, data, data_len))
       /\ pushed' = Store(pushed, n,
                      [source |-> IF source = NULL THEN <<>>
                                  ELSE blocks[source],
                       data |-> IF data # NULL /\ data_len > 0
                                THEN Memcpy(blocks, data, data_len) ELSE <<>>])
       /\ IF config.on_filter
          THEN /\ stack' = Append(Append(stack, f),
                             [Frame("on_filter", "hook", "") EXCEPT !.node = n])
               /\ nodes' = ns
               /\ UNCHANGED <<queue_head, queue_tail, queue_size, enq>>
          ELSE Enqueue(stack, f, ns)

\* on_filter returns r
FilterReturn(r) ==
  /\ InHook("on_filter")
  /\ LET b == SubSeq(stack, 1, Len(stack) - 2)
         f == stack[Len(stack) - 1]
     IN
     /\ dropped' = IF r THEN dropped ELSE dropped \cup {f.node}
     /\ IF Admitted(r)
        THEN Enqueue(b, f, nodes)
        ELSE /\ stack' = log_message(
                           Append(b, [f EXCEPT !.pc = "push_drop",
                                               !.why = "filtered"]),
                           "DEBUG", "Event filtered out", 0)
             /\ UNCHANGED <<queue_head, queue_tail, queue_size, nodes, enq>>
  /\ UNCHANGED <<cfgVars, hookCalls, deqVars, alive, state, events_processed,
                 blocks, nextId, disp, clearedIds, pushed, memErr>>

\* the filtered event is released and push returns true
PushDrop ==
  /\ AtTop("push_drop")
  /\ LET n == Top.node IN
     /\ memErr' = (memErr \/ BadFreeNode(nodes, blocks, n))
     /\ blocks' = IF n \in DOMAIN nodes
                  THEN FreeNodeBlocks(blocks, nodes[n]) ELSE blocks
     /\ nodes' = Free(nodes, n)
     /\ pushed' = Free(pushed, n)
  /\ stack' = Append(Below, [Top EXCEPT !.pc = "ret", !.rv = TRUE])
  /\ UNCHANGED <<cfgVars, hookCalls, deqVars, alive, procVars, nextId,
                 histVars>>

\* a function returns to its caller
Return ==
  /\ AtTop("ret")
  /\ stack' = Below
  /\ UNCHANGED <<cfgVars, hookCalls, deqVars, alive, procVars, heapVars,
                 histVars>>

\* a hook without a return value returns
HookReturn ==
  /\ stack # <<>>
  /\ Top.pc = "hook"
  /\ Top.fn # "on_filter"
  /\ stack' = Below
  /\ UNCHANGED <<cfgVars, hookCalls, deqVars, alive, procVars, heapVars,
                 histVars>>

-----------------------------------------------------------------------------
(* event_processor_process *)

\* mutant: only Stopped blocks processing
CanProcessUnlessStopped == state # STATE_STOPPED

\* only Running permits processing
CanProcess == state = STATE_RUNNING

\* mutant: the state is tested before the queue
NothingQueuedWhenRunning == queue_head = NULL /\ state = STATE_RUNNING

\* the first test of process: nothing is queued
NothingQueued == queue_head = NULL

\* mutant: the dequeued event is still counted as queued
SizeKept(n) == n

\* proc->queue_size--
SizeDown(n) == n - 1

\* the call, up to the first callback, entered from a stack b
ProcessEnter(b) ==
  IF NothingQueued
  THEN /\ stack' = Append(b, Frame("process", "ret", "empty"))
       /\ UNCHANGED <<queue_head, queue_tail, queue_size, deqVars>>
  ELSE IF ~CanProcess
  THEN /\ stack' = log_message(Append(b, Frame("process", "ret", "notrunning")),
                               "WARN", "Processor not running", 0)
       /\ UNCHANGED <<queue_head, queue_tail, queue_size, deqVars>>
  ELSE
    LET d == Unlink(nodes, queue_head, queue_tail) IN
    /\ queue_head' = d.head
    /\ queue_tail' = d.tail
    /\ queue_size' = SizeDown(queue_size)
    /\ deq' = Append(deq, d.node)
    /\ overtaken' = (overtaken \/ \E i \in 1..Len(b) : b[i].pc = "pr_dispatch")
    /\ stack' = log_message(
                  Append(b, [Frame("process", "pr_dispatch", "dequeued") EXCEPT
                               !.node = d.node]),
                  "DEBUG", "Processing event", 0)

Process ==
  /\ CanCall
  /\ Counted
  /\ ProcessEnter(stack)
  /\ UNCHANGED <<cfgVars, alive, state, events_processed, heapVars, histVars>>

\* mutant: the node is released before on_event is called with it
ProcessDispatchReleased ==
  /\ AtTop("pr_dispatch")
  /\ IF config.on_event
     THEN /\ stack' = Append(Append(Below, [Top EXCEPT !.pc = "pr_done"]),
                        [Frame("on_event", "hook", "") EXCEPT
                           !.node = Top.node])
          /\ disp' = Append(disp, Top.node)
     ELSE /\ stack' = Append(Below, [Top EXCEPT !.pc = "pr_done"])
          /\ disp' = disp
  /\ nodes' = Free(nodes, Top.node)
  /\ UNCHANGED <<cfgVars, hookCalls, deqVars, alive, procVars, blocks, nextId,
                 pushed, memErr, enq, dropped, clearedIds>>

\* "Process event (side effect)": on_event, if configured
ProcessDispatch ==
  /\ AtTop("pr_dispatch")
  /\ IF config.on_event
     THEN /\ stack' = Append(Append(Below, [Top EXCEPT !.pc = "pr_done"]),
                        [Frame("on_event", "hook", "") EXCEPT
                           !.node = Top.node])
          /\ disp' = Append(disp, Top.node)
     ELSE /\ stack' = Append(Below, [Top EXCEPT !.pc = "pr_done"])
          /\ disp' = disp
  /\ UNCHANGED <<cfgVars, hookCalls, deqVars, alive, procVars, heapVars, enq,
                 dropped, clearedIds>>

\* mutant: only an event that a hook has consumed is counted
ProcessedIfHandled(n) == IF config.on_event THEN n + 1 ELSE n

\* proc->events_processed++
Processed(n) == n + 1

\* events_processed++ and "Cleanup"
ProcessDone ==
  /\ AtTop("pr_done")
  /\ events_processed' = Processed(events_processed)
  /\ LET n == Top.node IN
     /\ memErr' = (memErr \/ BadFreeNode(nodes, blocks, n))
     /\ blocks' = IF n \in DOMAIN nodes
                  THEN FreeNodeBlocks(blocks, nodes[n]) ELSE blocks
     /\ nodes' = Free(nodes, n)
     /\ pushed' = Free(pushed, n)
  /\ stack' = Append(Below, [Top EXCEPT !.pc = "ret"])
  /\ UNCHANGED <<cfgVars, hookCalls, deqVars, alive, state, queue_head,
                 queue_tail, queue_size, nextId, histVars>>

-----------------------------------------------------------------------------
(* event_processor_process_all *)

\* count++ on a size_t (see CountCap)
CountUp(c) == IF c < CountCap THEN c + 1 ELSE c

\* the loop test, with the processAll frame f above the stack b
ProcessAllLoop(b, f) ==
  IF queue_head # NULL
  THEN ProcessEnter(Append(b, [f EXCEPT !.pc = "pa_wait"]))
  ELSE /\ stack' = IF f.cnt > 0
                   THEN log_message(Append(b, [f EXCEPT !.pc = "ret"]),
                                    "INFO", "Processed events", f.cnt)
                   ELSE Append(b, [f EXCEPT !.pc = "ret"])
       /\ UNCHANGED <<queue_head, queue_tail, queue_size, deqVars>>

ProcessAll ==
  /\ CanCall
  /\ Counted
  /\ ProcessAllLoop(stack, [Frame("processAll", "", "") EXCEPT
                             !.ep0 = events_processed])
  /\ UNCHANGED <<cfgVars, alive, state, events_processed, heapVars, histVars>>

\* process has returned: count++ and the loop test again
ProcessAllNext ==
  /\ AtTop("pa_wait")
  /\ ProcessAllLoop(Below, [Top EXCEPT !.cnt = CountUp(Top.cnt)])
  /\ UNCHANGED <<cfgVars, hookCalls, alive, state, events_processed, heapVars,
                 histVars>>

-----------------------------------------------------------------------------
(* change_state, event_processor_start, event_processor_stop *)

\* mutant: change_state without its no-op test
SameStateNever(new_state) == FALSE

\* the no-op test of change_state
SameState(new_state) == state = new_state

\* the call, up to the first callback
ChangeState(fn, new_state) ==
  /\ CanCall
  /\ Counted
  /\ stack' = IF SameState(new_state)
              THEN Append(stack, Frame(fn, "ret", "noop"))
              ELSE log_message(
                     Append(stack, [Frame(fn, "cs_set", "changed") EXCEPT
                                      !.tgt = new_state,
                                      !.old = state_to_string(state),
                                      !.new = state_to_string(new_state)]),
                     "INFO", "State change", 0)
  /\ UNCHANGED <<cfgVars, deqVars, alive, procVars, heapVars, histVars>>

Start == ChangeState("start", STATE_RUNNING)

Stop == ChangeState("stop", STATE_STOPPED)

\* mutant: the hook is handed the two names the wrong way round
ChangeStateSetSwapped ==
  /\ AtTop("cs_set")
  /\ state' = Top.tgt
  /\ stack' = IF config.on_state_change
              THEN Append(Append(Below, [Top EXCEPT !.pc = "ret",
                                                    !.fired = Top.fired + 1]),
                     [Frame("on_state_change", "hook", "") EXCEPT
                        !.old = Top.new, !.new = Top.old])
              ELSE Append(Below, [Top EXCEPT !.pc = "ret"])
  /\ UNCHANGED <<cfgVars, hookCalls, deqVars, alive, queue_head, queue_tail,
                 queue_size, events_processed, heapVars, histVars>>

\* proc->state = new_state, then on_state_change(old, new), if configured
ChangeStateSet ==
  /\ AtTop("cs_set")
  /\ state' = Top.tgt
  /\ stack' = IF config.on_state_change
              THEN Append(Append(Below, [Top EXCEPT !.pc = "ret",
                                                    !.fired = Top.fired + 1]),
                     [Frame("on_state_change", "hook", "") EXCEPT
                        !.old = Top.old, !.new = Top.new])
              ELSE Append(Below, [Top EXCEPT !.pc = "ret"])
  /\ UNCHANGED <<cfgVars, hookCalls, deqVars, alive, queue_head, queue_tail,
                 queue_size, events_processed, heapVars, histVars>>

-----------------------------------------------------------------------------
(* event_processor_clear_queue, event_processor_destroy *)

RECURSIVE FreeAll(_, _)
FreeAll(mem, ch) ==
  IF ch = <<>> THEN mem ELSE FreeAll(Free(mem, Head(ch)), Tail(ch))

\* mutant: the loop stops after the first node
ClearWalkOnce(ns, head) ==
  [freed |-> Chain(ns, head, 1),
   head |-> IF head = NULL THEN NULL ELSE ns[head].next]

\* the loop of clear_queue: it walks from the head until queue_head is NULL
ClearWalk(ns, head) ==
  [freed |-> Chain(ns, head, Cardinality(DOMAIN ns)), head |-> NULL]

\* the whole function up to its log: every linked node is released
ClearEnter(b) ==
  LET w == ClearWalk(nodes, queue_head)
      ch == w.freed
      cleared == Len(ch)
      cps == <<>> \o [i \in 1..Len(ch) |-> nodes[ch[i]].source_copy]
                  \o [i \in 1..Len(ch) |-> nodes[ch[i]].data_copy]
  IN
  /\ memErr' = (memErr \/ \E i \in 1..Len(cps) : BadFree(blocks, cps[i]))
  /\ blocks' = FreeAll(blocks, cps)
  /\ nodes' = FreeAll(nodes, ch)
  /\ pushed' = FreeAll(pushed, ch)
  /\ queue_head' = w.head
  /\ queue_tail' = NULL
  /\ queue_size' = 0
  /\ clearedIds' = clearedIds \cup Range(ch)
  /\ stack' = IF cleared > 0
              THEN log_message(
                     Append(b, [Frame("clearQueue", "ret", "") EXCEPT
                                  !.cnt = cleared]),
                     "INFO", "Cleared events from queue", cleared)
              ELSE Append(b, Frame("clearQueue", "ret", ""))
  /\ UNCHANGED <<cfgVars, deqVars, alive, state, events_processed, nextId,
                 enq, disp, dropped>>

ClearQueue ==
  /\ CanCall
  /\ Counted
  /\ ClearEnter(stack)

\* destroy is the caller's last call on the handle; a hook never makes it
Destroy ==
  /\ CanCall
  /\ Counted
  /\ stack = <<>>
  /\ stack' = log_message(<<Frame("destroy", "d_clear", "")>>,
                          "INFO", "Destroying event processor", 0)
  /\ UNCHANGED <<cfgVars, deqVars, alive, procVars, heapVars, histVars>>

DestroyClear ==
  /\ AtTop("d_clear")
  /\ ClearEnter(Append(Below, [Top EXCEPT !.pc = "d_free"]))
  /\ UNCHANGED hookCalls

\* free(proc->name_copy); free(proc)
DestroyFree ==
  /\ AtTop("d_free")
  /\ alive' = FALSE
  /\ stack' = Below
  /\ UNCHANGED <<cfgVars, hookCalls, deqVars, procVars, heapVars, histVars>>

-----------------------------------------------------------------------------
(* The caller's own buffers *)

\* after a push has returned, and while its event is queued, the caller
\* rewrites (or releases and reuses) the buffers it passed
MutateBuffers(src, buf) ==
  /\ alive
  /\ ~hooksCallBack
  /\ stack = <<>>
  /\ queue_head # NULL
  /\ blocks[CallerSrc] # src
  /\ blocks[CallerBuf] # buf
  /\ blocks' = [blocks EXCEPT ![CallerSrc] = src, ![CallerBuf] = buf]
  /\ UNCHANGED <<cfgVars, hookCalls, deqVars, alive, procVars, nodes, nextId,
                 pushed, memErr, stack, histVars>>

-----------------------------------------------------------------------------
(* The program *)

Call ==
  \/ \E in \in PushInputs :
       /\ hooksCallBack => in = PlainInput
       /\ Push(in.type, in.source, in.data, in.data_len,
               in.okNode, in.okSrc, in.okDat)
  \/ Process
  \/ ProcessAll
  \/ Start
  \/ Stop
  \/ ClearQueue
  \/ Destroy

\* what a call under way does next; a hook that is running returns
Continue ==
  \/ \E r \in BOOLEAN : FilterReturn(r)
  \/ PushDrop
  \/ ProcessDispatch
  \/ ProcessDone
  \/ ProcessAllNext
  \/ ChangeStateSet
  \/ DestroyClear
  \/ DestroyFree
  \/ Return
  \/ HookReturn

Mutate == \E src \in SrcTexts, buf \in BufBytes : MutateBuffers(src, buf)

Next == Call \/ Continue \/ Mutate

Spec == Init /\ [][Next]_vars

\* a call under way keeps running, and hooks return (the library assumes so)
FairSpec == Spec /\ WF_vars(Continue)

-----------------------------------------------------------------------------
(* Vocabulary of the properties *)

IsPrefix(s, t) == Len(s) <= Len(t) /\ \A i \in 1..Len(s) : s[i] = t[i]

Frames == {stack[i] : i \in 1..Len(stack)}

\* the step enters fn: a frame of fn stands right above the old stack
Enters(fn) == Len(stack') > Len(stack) /\ stack'[Len(stack) + 1].fn = fn

\* the frame the step has entered, and the hook frames it has put above it
Entered == stack'[Len(stack) + 1]
HooksAbove == {stack'[i] : i \in (Len(stack) + 2)..Len(stack')}

\* what an event handed to a hook carries
View(n) ==
  [source |-> IF nodes[n].source = NULL THEN <<>> ELSE blocks[nodes[n].source],
   data |-> IF nodes[n].data = NULL THEN <<>>
            ELSE Memcpy(blocks, nodes[n].data, nodes[n].data_len)]

Target(fn) == IF fn = "start" THEN STATE_RUNNING ELSE STATE_STOPPED

-----------------------------------------------------------------------------
(* Properties *)

\* C1 (as stated): as long as clearQueue has removed nothing, the events
\* handed to on_event are, in order, the first events that were enqueued:
\* the k-th dispatched event is the k-th enqueued one
C1_FifoOrder == clearedIds = {} => IsPrefix(disp, enq)

\* C1 (amended): as long as clearQueue has removed nothing, process unlinks
\* the events in the order they were enqueued (the k-th dequeued event is
\* the k-th enqueued one), and on_event receives them in that order unless
\* a process was entered while an earlier dequeued event was still waiting
\* for its on_event (from on_log, on the "Processing event" entry)
C1_FifoDequeue ==
  /\ clearedIds = {} => IsPrefix(deq, enq)
  /\ (clearedIds = {} /\ ~overtaken) => IsPrefix(disp, enq)

C1_Witness == clearedIds = {} /\ ~overtaken /\ Len(disp) >= 2

\* C2: every processAll() call returns
C2_ProcessAllReturns ==
  (\E f \in Frames : f.fn = "processAll")
    ~> (\A f \in Frames : f.fn # "processAll")

\* C3: a push entered while queue_size = max_queue_size > 0 is about to
\* return false and has changed nothing: the queue, the counters and the
\* state are as before, no node was allocated, and the only hook it has
\* invoked is on_log with a WARN entry (never on_filter)
C3_FullPushRefused ==
  [][ (Enters("push") /\ config.max_queue_size > 0
                      /\ queue_size = config.max_queue_size)
      => /\ Entered.pc = "ret"
         /\ Entered.rv = FALSE
         /\ UNCHANGED <<procVars, heapVars, histVars>>
         /\ \A h \in HooksAbove : h.fn = "on_log" /\ h.lvl = "WARN"
    ]_vars

C3_Witness ==
  /\ \E f \in Frames : f.fn = "push" /\ f.why = "full"
  /\ Queue # <<>>
  /\ queue_size = config.max_queue_size

\* C4: a push whose filter returned false returns true; the step in which
\* the filter returns false leaves the queue and its size as they were,
\* and the dropped event is never linked into the queue nor handed to
\* on_event
C4_FilterTransparency ==
  /\ [](\A n \in dropped :
          n \notin Range(Queue) /\ n \notin Range(enq) /\ n \notin Range(disp))
  /\ [](\A f \in Frames :
          (f.fn = "push" /\ f.node \in dropped /\ f.pc = "ret") => f.rv = TRUE)
  /\ [][ dropped' # dropped
         => /\ UNCHANGED <<queue_head, queue_tail, queue_size, enq, disp>>
            /\ Queue' = Queue ]_vars

C4_Witness ==
  /\ \E f \in Frames : f.fn = "push" /\ f.node \in dropped /\ f.pc = "ret"
  /\ queue_size > 0

\* C5: a process() entered while the state is Idle or Stopped dequeues
\* nothing: the queue, its size and events_processed are as before, the
\* call is about to return and it has not invoked on_event
C5_StateGating ==
  [][ (Enters("process") /\ state # STATE_RUNNING)
      => /\ Entered.pc = "ret"
         /\ UNCHANGED <<queue_head, queue_tail, queue_size, events_processed,
                        nodes, disp>>
         /\ \A h \in HooksAbove : h.fn = "on_log"
    ]_vars

C5_Witness ==
  /\ \E f \in Frames : f.fn = "process" /\ f.why = "notrunning"
  /\ state # STATE_RUNNING
  /\ queue_size > 0

\* C6: a start()/stop() entered in its target state returns at once, with
\* no log entry, no on_state_change and the state as it was; one entered in
\* another state invokes on_state_change exactly once before it returns
C6_IdempotentTransitions ==
  /\ [][ \A fn \in {"start", "stop"} :
           (Enters(fn) /\ state = Target(fn))
           => /\ stack' = Append(stack, Entered)
              /\ Entered.pc = "ret"
              /\ Entered.fired = 0
              /\ state' = state ]_vars
  /\ [][ \A fn \in {"start", "stop"} :
           (Enters(fn) /\ state # Target(fn))
           => Entered.pc = "cs_set" /\ Entered.fired = 0 ]_vars
  /\ [][ Enters("on_state_change")
         => /\ AtTop("cs_set")
            /\ stack'[Len(stack)] = [Top EXCEPT !.pc = "ret",
                                                !.fired = 1] ]_vars
  /\ [](\A f \in Frames :
          (f.fn \in {"start", "stop"} /\ f.pc = "ret" /\ config.on_state_change)
          => f.fired = (IF f.why = "changed" THEN 1 ELSE 0))

C6_Witness ==
  /\ config.on_state_change
  /\ state = STATE_RUNNING
  /\ \E f \in Frames : f.fn = "start" /\ f.why = "noop"

\* C7: with max_queue_size = K > 0, queue_size <= K in every state
C7_CapacityInvariant ==
  (alive /\ config.max_queue_size > 0) => queue_size <= config.max_queue_size

\* C8: a push whose copy of the source text or of the payload failed to
\* allocate returns false and enqueues nothing
C8_CopyFailureRefused ==
  \A f \in Frames :
    (f.fn = "push" /\ f.cf /\ f.pc = "ret")
    => (f.rv = FALSE /\ f.node \notin Range(enq))

\* C9: the event handed to on_event carries the source text and the payload
\* that the caller's buffers held when push() was called
C9_DataIndependence ==
  InHook("on_event") => View(Top.node) = pushed[Top.node]

\* when both copies were made, what on_event receives is what the caller's
\* buffers held at the push, whatever the caller has done to them since
CopiedDataIndependent ==
  ( /\ InHook("on_event")
    /\ (nodes[Top.node].source = NULL) = (pushed[Top.node].source = <<>>)
    /\ (nodes[Top.node].data = NULL) = (pushed[Top.node].data = <<>>) )
  => View(Top.node) = pushed[Top.node]

\* C10: wherever the processor can be observed, queue_size is the number
\* of nodes linked from queue_head
C10_SizeMatchesQueue == alive => queue_size = Len(Queue)

C10_Witness == InHook("on_event") /\ queue_size >= 1 /\ queue_tail # NULL

\* what the event_t of node n says about its payload
PayloadAbsent(n) == nodes[n].data = NULL
PayloadBytes(n) == IF PayloadAbsent(n) THEN 0 ELSE Len(blocks[nodes[n].data])

\* C11: every event handed to on_filter or on_event has data_len equal to
\* the byte count of its payload, 0 when the payload is absent
C11_LengthMatchesPayload ==
  (InHook("on_filter") \/ InHook("on_event"))
  => nodes[Top.node].data_len = PayloadBytes(Top.node)

\* the half that push does keep: a payload that is present has data_len
\* bytes and data_len > 0, so data_len = 0 only with an absent payload
PresentPayloadHasLength ==
  ( /\ InHook("on_filter") \/ InHook("on_event")
    /\ ~PayloadAbsent(Top.node) )
  => /\ nodes[Top.node].data_len > 0
     /\ nodes[Top.node].data_len = PayloadBytes(Top.node)

TransitionSteps ==
  /\ [][ \A fn \in {"start", "stop"} :
           (Enters(fn) /\ state # Target(fn))
           => /\ state' = state
              /\ Entered.pc = "cs_set"
              /\ Entered.old = state_to_string(state)
              /\ Entered.new = state_to_string(Target(fn))
              /\ \A h \in HooksAbove :
                   h.fn = "on_log" /\ h.lvl = "INFO" /\ h.msg = "State change"
              /\ LogEnabled => HooksAbove # {} ]_vars
  /\ [][ state' # state
         => /\ AtTop("cs_set")
            /\ state' = Top.tgt
            /\ config.on_state_change => Enters("on_state_change") ]_vars
  /\ [][ Enters("on_state_change")
         => /\ AtTop("cs_set")
            /\ state' = Top.tgt
            /\ Entered.new = state_to_string(state') ]_vars

\* C13 (as stated): log first, state update second, hook third, and the
\* hook's old and new names are the names of the state right before the
\* update and of the state at the moment of the hook call
C13_TransitionOrder ==
  /\ TransitionSteps
  /\ [][ Enters("on_state_change")
         => Entered.old = state_to_string(state) ]_vars

\* C13 (amended): log first, state update second, hook third; the hook's
\* new name is the name of the state at the moment of the hook call and its
\* old name is the name of the state when start()/stop() was entered, which
\* is the state right before the update unless a call made by on_log during
\* the INFO entry has changed the state in between
C13_TransitionOrderAtEntry ==
  /\ TransitionSteps
  /\ [][ Enters("on_state_change")
         => /\ Entered.old = Top.old
            /\ Entered.new = Top.new
            /\ ~hooksCallBack => Entered.old = state_to_string(state) ]_vars

C13_Witness ==
  /\ InHook("on_state_change")
  /\ Top.old = "RUNNING"
  /\ Top.new = "STOPPED"
  /\ state = STATE_STOPPED
  /\ LogEnabled

\* how many times node n was handed to on_event
Dispatches(n) == Cardinality({i \in 1..Len(disp) : disp[i] = n})

\* C14: a process() entered while Running on a non-empty queue unlinks
\* exactly the head (queue_size decreases by 1), then hands that node to
\* on_event exactly once if the hook is configured, then adds exactly 1 to
\* events_processed (hook or no hook) and releases the node; a process()
\* entered on an empty queue returns at once and changes nothing
C14_ProcessEffects ==
  /\ [][ (Enters("process") /\ state = STATE_RUNNING /\ queue_head # NULL)
         => /\ Entered.pc = "pr_dispatch"
            /\ Entered.node = queue_head
            /\ Queue' = Tail(Queue)
            /\ queue_size' = queue_size - 1
            /\ deq' = Append(deq, queue_head)
            /\ UNCHANGED <<events_processed, heapVars, disp>>
            /\ \A h \in HooksAbove : h.fn = "on_log" /\ h.lvl = "DEBUG" ]_vars
  /\ [][ AtTop("pr_dispatch")
         => /\ stack'[Len(stack)] = [Top EXCEPT !.pc = "pr_done"]
            /\ IF config.on_event
               THEN /\ Enters("on_event")
                    /\ Entered.node = Top.node
                    /\ disp' = Append(disp, Top.node)
               ELSE stack' = Append(Below, [Top EXCEPT !.pc = "pr_done"])
                    /\ disp' = disp
            /\ UNCHANGED <<procVars, heapVars>> ]_vars
  /\ [][ AtTop("pr_done")
         => /\ events_processed' = events_processed + 1
            /\ stack' = Append(Below, [Top EXCEPT !.pc = "ret"])
            /\ DOMAIN nodes' = DOMAIN nodes \ {Top.node}
            /\ UNCHANGED <<state, queue_head, queue_tail, queue_size, disp>>
     ]_vars
  /\ [][ (events_processed' # events_processed \/ disp' # disp \/ deq' # deq)
         => \E i \in 1..Len(stack') : stack'[i].fn = "process" ]_vars
  /\ [](\A f \in Frames :
          (f.fn = "process" /\ f.why = "dequeued" /\ f.pc = "ret")
          => /\ Dispatches(f.node) = (IF config.on_event THEN 1 ELSE 0)
             /\ f.node \notin DOMAIN nodes
             /\ events_processed >= 1)
  /\ [](\A n \in Range(disp) : Dispatches(n) = 1)
  /\ [][ (Enters("process") /\ queue_head = NULL)
         => /\ stack' = Append(stack, Entered)
            /\ Entered.pc = "ret"
            /\ UNCHANGED <<procVars, heapVars, histVars, deqVars>> ]_vars

C14_Witness ==
  /\ \E f \in Frames : f.fn = "process" /\ f.why = "dequeued" /\ f.pc = "ret"
  /\ config.on_event
  /\ events_processed = 2
  /\ Len(disp) = 2

\* the WARN entry of a refused process()
RefusalLogged ==
  \E h \in HooksAbove :
    h.fn = "on_log" /\ h.lvl = "WARN" /\ h.msg = "Processor not running"

\* C15 (as stated): every process() entered while the state is Idle or
\* Stopped logs a WARN entry (logging enabled and on_log set), whatever is
\* queued, an empty queue included
C15_RefusedWithWarn ==
  [][ (Enters("process") /\ state # STATE_RUNNING /\ LogEnabled)
      => RefusalLogged ]_vars

\* C15 (amended): a process() entered while the state is Idle or Stopped on
\* a non-empty queue returns after exactly one WARN entry (logging enabled
\* and on_log set), the same in both states; on an empty queue it returns
\* with no log entry at all
C15_RefusedWithWarnIfQueued ==
  [][ (Enters("process") /\ state # STATE_RUNNING)
      => /\ Entered.pc = "ret"
         /\ IF queue_head # NULL /\ LogEnabled
            THEN /\ RefusalLogged
                 /\ Len(stack') = Len(stack) + 2
            ELSE Len(stack') = Len(stack) + 1 ]_vars

C15_Witness ==
  /\ InHook("on_log")
  /\ Top.lvl = "WARN"
  /\ Top.msg = "Processor not running"
  /\ state = STATE_STOPPED
  /\ queue_size > 0

\* the step in which processAll leaves its loop, and whether it then emits
\* its INFO summary
LeavesLoop ==
  /\ stack # <<>>
  /\ Top.fn = "processAll"
  /\ Len(stack') >= Len(stack)
  /\ stack'[Len(stack)].fn = "processAll"
  /\ stack'[Len(stack)].pc = "ret"

Summary == stack'[Len(stack')]

EmitsSummary ==
  /\ Len(stack') = Len(stack) + 1
  /\ Summary.fn = "on_log"
  /\ Summary.lvl = "INFO"
  /\ Summary.msg = "Processed events"

\* C16: processAll() emits its INFO summary (logging enabled, on_log set)
\* exactly when events_processed has grown during the call, and the count
\* it reports is that growth
C16_SummaryCount ==
  [][ LeavesLoop
      => /\ (LogEnabled /\ events_processed > Top.ep0) <=> EmitsSummary
         /\ EmitsSummary => Summary.cnt = events_processed - Top.ep0
    ]_vars

\* with hooks that do not call back, and since the state then cannot change
\* during the call, a processAll() that leaves its loop has the queue empty,
\* has counted exactly the events processed during the call, and emits its
\* summary exactly when that count is positive
SummaryCountWithoutCallbacks ==
  [][ (LeavesLoop /\ ~hooksCallBack)
      => /\ Queue = <<>>
         /\ stack'[Len(stack)].cnt = events_processed - Top.ep0
         /\ (LogEnabled /\ events_processed > Top.ep0) <=> EmitsSummary
         /\ EmitsSummary => Summary.cnt = events_processed - Top.ep0
    ]_vars

\* the functions that are not start() or stop()
OtherCalls == {"push", "process", "processAll", "clearQueue", "destroy"}

\* C17: a new processor is Idle with an empty queue and events_processed
\* = 0; afterwards the state changes only in a step of start() or stop():
\* entering push, process, processAll or clearQueue, and every later step
\* of these calls, leaves the state as it was
C17_StateFrame ==
  /\ state = STATE_IDLE
  /\ queue_head = NULL
  /\ queue_tail = NULL
  /\ queue_size = 0
  /\ events_processed = 0
  /\ [][ state' # state
         => /\ AtTop("cs_set")
            /\ Top.fn \in {"start", "stop"}
            /\ state' = Target(Top.fn) ]_vars
  /\ [][ (\E fn \in OtherCalls : Enters(fn)) => state' = state ]_vars
  /\ [][ (stack # <<>> /\ Top.fn \in OtherCalls) => state' = state ]_vars

C17_Witness ==
  /\ \E f \in Frames : f.fn = "push" /\ f.why = "queued"
  /\ state = STATE_STOPPED
  /\ events_processed >= 1

\* the nodes push has constructed so far, and the copies that live nodes own
Constructed == {NodeAddr(k) : k \in 1..nextId}
OwnedCopies ==
  UNION {{nodes[n].source_copy, nodes[n].data_copy} : n \in DOMAIN nodes}
    \ {NULL}

\* nothing is released twice: no free of an address that is not allocated,
\* the live copies are exactly those of the live nodes, a node that is gone
\* went on exactly one path (filtered drop, end of the process() that
\* dequeued it, clear_queue), and nodes go only in the steps of these paths
ReleasedAtMostOnce ==
  /\ [](~memErr)
  /\ [](DOMAIN nodes \subseteq Constructed)
  /\ [](DOMAIN blocks = {CallerSrc, CallerBuf} \cup OwnedCopies)
  /\ [](\A n \in Constructed :
          /\ Cardinality({p \in {"drop", "process", "clear"} :
                            \/ p = "drop" /\ n \in dropped
                            \/ p = "process" /\ n \in Range(deq)
                            \/ p = "clear" /\ n \in clearedIds}) <= 1
          /\ n \notin DOMAIN nodes
             => (n \in dropped \/ n \in Range(deq) \/ n \in clearedIds)
          /\ n \in clearedIds => n \notin DOMAIN nodes)
  /\ [][ \A n \in DOMAIN nodes \ DOMAIN nodes' :
           \/ AtTop("push_drop") /\ n = Top.node /\ n \in dropped
           \/ AtTop("pr_done") /\ n = Top.node /\ n \in Range(deq)
           \/ (Enters("clearQueue") \/ AtTop("d_clear")) /\ n \in clearedIds'
     ]_vars

NothingAllocated ==
  DOMAIN nodes = {} /\ DOMAIN blocks = {CallerSrc, CallerBuf}

\* C18: every node that push constructed, with its two copies, is released
\* exactly once, on exactly one path (filtered drop, end of the process()
\* that dequeued it, clear_queue called by clearQueue() or by destroy());
\* nothing is released twice, and after destroy() nothing is left allocated
C18_ReleasedOnce ==
  /\ ReleasedAtMostOnce
  /\ [](~alive => NothingAllocated)

\* with hooks that do not call back, nothing is left after destroy()
NoLeakWithoutCallbacks == (~alive /\ ~hooksCallBack) => NothingAllocated

\* the events that a process() under way has unlinked and not yet counted
InFlight ==
  Cardinality({i \in 1..Len(stack) :
                 stack[i].fn = "process"
                 /\ stack[i].pc \in {"pr_dispatch", "pr_done"}})

\* C19: between operations, the number of events that were enqueued equals
\* queue_size + events_processed + the number of events clear_queue has
\* removed (inside a call, the events in flight are added);
\* events_processed never decreases, and it changes only in a step of
\* process, never in one of push, clearQueue, start or stop
C19_Conservation ==
  /\ []((alive /\ stack = <<>>) =>
          Len(enq) = queue_size + events_processed + Cardinality(clearedIds))
  /\ [](Len(enq) = queue_size + events_processed + Cardinality(clearedIds)
                   + InFlight)
  /\ [][ events_processed' >= events_processed ]_vars
  /\ [][ events_processed' # events_processed
         => AtTop("pr_done") /\ Top.fn = "process" ]_vars
  /\ [][ (\E fn \in {"push", "clearQueue", "start", "stop"} : Enters(fn))
         => events_processed' = events_processed ]_vars

C19_Witness ==
  /\ alive
  /\ stack = <<>>
  /\ Len(enq) = 2
  /\ events_processed = 1
  /\ Cardinality(clearedIds) = 1

\* the on_event calls under way (the innermost one may be running, the
\* others wait for calls their hook has made)
Dispatching == {i \in 1..Len(stack) : stack[i].fn = "on_event"}

\* C20: while on_event runs, whatever its hook calls, the event it was
\* handed is unlinked (neither linked in the queue nor counted in
\* queue_size nor yet in events_processed), allocated with its copies,
\* dispatched once and not cleared; it is released only by the end of its
\* own process(), after the hook has returned, and nothing is freed twice
C20_InFlightEvent ==
  /\ [](\A i \in Dispatching :
          LET n == stack[i].node IN
          /\ i > 1
          /\ stack[i - 1].fn = "process"
          /\ stack[i - 1].pc = "pr_done"
          /\ stack[i - 1].node = n
          /\ n \in DOMAIN nodes
          /\ {nodes[n].source_copy, nodes[n].data_copy} \ {NULL}
               \subseteq DOMAIN blocks
          /\ n \notin Range(Queue)
          /\ n \notin clearedIds
          /\ Dispatches(n) = 1)
  /\ [](alive => Len(enq) = Len(Queue) + events_processed
                            + Cardinality(clearedIds) + InFlight)
  /\ [][ \A n \in (DOMAIN nodes \ DOMAIN nodes') \cap Range(disp) :
           AtTop("pr_done") /\ Top.node = n ]_vars
  /\ [](~memErr)

C20_Witness ==
  /\ Len(stack) >= 3
  /\ \E i \in Dispatching : i < Len(stack)
  /\ Top.fn = "clearQueue"
  /\ Top.cnt >= 1
  /\ events_processed = 0

====
